---- MODULE Spec2Model ----
(***************************************************************************)
(* A model of the tetris engine (src/src/engine/mod.rs, piece.rs): piece   *)
(* geometry, the matrix and its two legality predicates, the cursor        *)
(* operations and the 7-bag.                                               *)
(*                                                                         *)
(* Encodings.  Option<T>: None is <<>>, Some(v) is <<v>>.  Offset / Coord: *)
(* a record [x, y] of integers.  Kind, Rotation, Color, Move: strings      *)
(* named as the enum variants.  The matrix is the flat array of the code,  *)
(* a function on 0 .. SIZE-1 indexed by y * WIDTH + x.                     *)
(***************************************************************************)
EXTENDS Integers, Sequences, FiniteSets

VARIABLES
    matrix,            \* Engine.matrix : [Option<Color>; SIZE]
    bag,               \* Engine.bag : Vec<Kind>
    cursor,            \* Engine.cursor : Option<Piece>
    debug_assertions,  \* build profile: TRUE when debug_assert! is compiled in
    panic,             \* "none", or the check that aborted the program
    last,              \* the last operation called, its argument and result
    spawned,           \* number of pieces the driver has installed as cursor
    piece,             \* geometry: the piece Piece::cells is applied to
    result,            \* geometry: what the last geometry call returned
    block,             \* bag: how often each Kind was drawn since the last refill
    refills,           \* bag: number of refills so far
    probe,             \* bag: the Kind whose occurrences are followed
    since              \* bag: draws since the probe was last drawn (or since the start)

vars == <<matrix, bag, cursor, debug_assertions, panic, last, spawned,
          piece, result, block, refills, probe, since>>

engineVars == <<matrix, bag, cursor, debug_assertions, panic, last, spawned>>
geomVars == <<piece, result>>
bagVars == <<block, refills, probe, since>>

----------------------------------------------------------------------------
(* Option<T> *)

None == <<>>
Some(v) == <<v>>
IsSome(o) == o # None
Unwrap(o) == o[1]

(* Vector2<isize> / Point2<usize> *)

Vec2(a, b) == [x |-> a, y |-> b]
VecAdd(a, b) == [x |-> a.x + b.x, y |-> a.y + b.y]
VecScale(a, s) == [x |-> a.x * s, y |-> a.y * s]

----------------------------------------------------------------------------
(* Bounds of the model *)

\* the driver installs at most this many pieces in one game
MaxPieces == 2
\* the driver installs a piece at a row 0 .. MaxSpawnY
MaxSpawnY == 0
\* geometry inputs: positions range over -GeomMargin .. WIDTH/HEIGHT + GeomMargin
GeomMargin == 4
\* the bag is refilled at most this many times
MaxRefills == 3
\* board inputs: the filled cell lies at most this many rows below a cell of the piece
MaxGap == 2

----------------------------------------------------------------------------
(* piece.rs *)

CELL_COUNT == 4

Kind_ALL == <<"O", "I", "T", "L", "J", "S", "Z">>
Kinds == {Kind_ALL[i] : i \in 1..Len(Kind_ALL)}
Rotations == {"N", "E", "S", "W"}

KindCells(kind) ==
    CASE kind = "O" -> <<Vec2(1, 1), Vec2(1, 2), Vec2(2, 1), Vec2(2, 2)>>
      [] kind = "I" -> <<Vec2(0, 2), Vec2(1, 2), Vec2(2, 2), Vec2(3, 2)>>
      [] kind = "T" -> <<Vec2(0, 1), Vec2(1, 1), Vec2(2, 1), Vec2(1, 2)>>
      [] kind = "L" -> <<Vec2(0, 1), Vec2(1, 1), Vec2(2, 1), Vec2(2, 2)>>
      [] kind = "J" -> <<Vec2(0, 2), Vec2(0, 1), Vec2(1, 1), Vec2(2, 1)>>
      [] kind = "S" -> <<Vec2(0, 1), Vec2(1, 1), Vec2(1, 2), Vec2(2, 2)>>
      [] kind = "Z" -> <<Vec2(0, 2), Vec2(1, 2), Vec2(1, 1), Vec2(2, 1)>>

local_grid_size(kind) == IF kind = "I" THEN 4 ELSE 3

intrinsic_offset(rotation) ==
    CASE rotation = "N" -> Vec2(0, 0)
      [] rotation = "E" -> Vec2(0, 1)
      [] rotation = "S" -> Vec2(1, 1)
      [] rotation = "W" -> Vec2(1, 0)

\* impl Mul<Rotation> for Vector2<S>, with the arms of E and W exchanged
RotationMulSwapped(v, rhs) ==
    CASE rhs = "N" -> v
      [] rhs = "E" -> Vec2(-v.y, v.x)
      [] rhs = "S" -> Vec2(-v.x, -v.y)
      [] rhs = "W" -> Vec2(v.y, -v.x)

\* impl Mul<Rotation> for Vector2<S>
RotationMul(v, rhs) ==
    CASE rhs = "N" -> v
      [] rhs = "E" -> Vec2(v.y, -v.x)
      [] rhs = "S" -> Vec2(-v.x, -v.y)
      [] rhs = "W" -> Vec2(-v.y, v.x)

\* Piece::moved_by
moved_by(p, offset) ==
    [kind |-> p.kind, position |-> VecAdd(p.position, offset), rotation |-> p.rotation]

\* Piece::rotator, applied to one template cell
rotator(p, cell) ==
    IF p.kind = "O"
    THEN cell
    ELSE VecAdd(RotationMul(cell, p.rotation),
                VecScale(intrinsic_offset(p.rotation), local_grid_size(p.kind)))

\* Piece::trasnlator, applied to one rotated cell
trasnlator(p, cell) == VecAdd(cell, p.position)

\* self.kind.cells().map(self.rotator()), which depends on kind and rotation
\* only: tabulated once for all pieces
LocalOffsets ==
    [kind \in Kinds |-> [rotation \in Rotations |-> [i \in 1..CELL_COUNT |->
        rotator([kind |-> kind, rotation |-> rotation], KindCells(kind)[i])]]]

\* the `offsets` array of Piece::cells
PieceOffsets(p) ==
    [i \in 1..CELL_COUNT |-> trasnlator(p, LocalOffsets[p.kind][p.rotation][i])]

----------------------------------------------------------------------------
(* mod.rs: Matrix *)

WIDTH == 10
HEIGHT == 20
SIZE == WIDTH * HEIGHT

Colors == <<"Yellow", "Cyan", "Pruple", "Orange", "Blue", "Green", "Red">>

\* Kind::color is called by place_cursor but is not defined in src/: one
\* Color per Kind, taken in declaration order.
color(kind) == Colors[CHOOSE i \in 1..Len(Kind_ALL) : Kind_ALL[i] = kind]

\* Matrix::blank
blank == [i \in 0..(SIZE - 1) |-> None]

\* Matrix::valid_coord, also bounding y by HEIGHT
valid_coord_checks_height(coord) == coord.x < WIDTH /\ coord.y < HEIGHT

\* Matrix::valid_coord
valid_coord(coord) == coord.x < WIDTH

\* Matrix::in_matrix
in_matrix(coord) == valid_coord(coord) /\ coord.y < HEIGHT

\* Matrix::index
index(coord) == coord.y * WIDTH + coord.x

\* Vector2::cast::<usize>: None when a component does not fit in usize
cast_usize(offset) ==
    IF offset.x < 0 \/ offset.y < 0 THEN None ELSE Some(offset)

\* the loop of Piece::cells from slot i on, coords being the slots filled so far
RECURSIVE CellsLoop(_, _, _)
CellsLoop(offsets, i, coords) ==
    IF i > CELL_COUNT
    THEN Some(coords)
    ELSE LET positive_offset == cast_usize(offsets[i])
         IN  IF positive_offset = None
             THEN None
             ELSE IF valid_coord(Unwrap(positive_offset))
                  THEN CellsLoop(offsets, i + 1, Append(coords, Unwrap(positive_offset)))
                  ELSE None

\* Piece::cells
Cells(p) == CellsLoop(PieceOffsets(p), 1, <<>>)

\* Index<Coord> for Matrix: the assert of index() passes
IndexOk(coord) == in_matrix(coord)

\* Matrix::is_placeable with any() in place of all()
is_placeable_some_cell(m, p) ==
    LET cells == Cells(p)
    IN  IF cells = None
        THEN FALSE
        ELSE \E i \in 1..CELL_COUNT :
                 in_matrix(Unwrap(cells)[i]) /\ m[index(Unwrap(cells)[i])] = None

\* Matrix::is_placeable
is_placeable(m, p) ==
    LET cells == Cells(p)
    IN  IF cells = None
        THEN FALSE
        ELSE \A i \in 1..CELL_COUNT :
                 in_matrix(Unwrap(cells)[i]) /\ m[index(Unwrap(cells)[i])] = None

\* Matrix::is_clipping with all() in place of any()
is_clipping_every_cell(m, p) ==
    LET cells == Cells(p)
    IN  IF cells = None
        THEN TRUE
        ELSE \A i \in 1..CELL_COUNT :
                 ~in_matrix(Unwrap(cells)[i]) \/ m[index(Unwrap(cells)[i])] # None

\* Matrix::is_clipping
is_clipping(m, p) ==
    LET cells == Cells(p)
    IN  IF cells = None
        THEN TRUE
        ELSE \E i \in 1..CELL_COUNT :
                 ~in_matrix(Unwrap(cells)[i]) \/ m[index(Unwrap(cells)[i])] # None

\* the all() of is_placeable from cell i on, as to the assert of Index: &&
\* evaluates self[coord] only when in_matrix(coord) holds, and all() stops at
\* the first cell whose closure is false
RECURSIVE PlaceableScan(_, _, _)
PlaceableScan(m, cells, i) ==
    IF i > CELL_COUNT
    THEN "none"
    ELSE IF ~in_matrix(cells[i])
         THEN "none"
         ELSE IF ~IndexOk(cells[i])
              THEN "index"
              ELSE IF m[index(cells[i])] = None
                   THEN PlaceableScan(m, cells, i + 1)
                   ELSE "none"

\* the any() of is_clipping from cell i on, as to the assert of Index: ||
\* evaluates self[coord] only when in_matrix(coord) holds, and any() stops at
\* the first cell whose closure is true
RECURSIVE ClippingScan(_, _, _)
ClippingScan(m, cells, i) ==
    IF i > CELL_COUNT
    THEN "none"
    ELSE IF ~in_matrix(cells[i])
         THEN "none"
         ELSE IF ~IndexOk(cells[i])
              THEN "index"
              ELSE IF m[index(cells[i])] # None
                   THEN "none"
                   ELSE ClippingScan(m, cells, i + 1)

\* the check that aborts a call of is_placeable / is_clipping, or "none"
is_placeable_panic(m, p) ==
    IF Cells(p) = None THEN "none" ELSE PlaceableScan(m, Unwrap(Cells(p)), 1)
is_clipping_panic(m, p) ==
    IF Cells(p) = None THEN "none" ELSE ClippingScan(m, Unwrap(Cells(p)), 1)

----------------------------------------------------------------------------
(* mod.rs: Engine, the operations as functions of the fields they read *)

Moves == {"Left", "Right"}

\* Move::offset with the two arms exchanged
MoveOffsetMirrored(mv) == IF mv = "Left" THEN Vec2(1, 0) ELSE Vec2(-1, 0)

\* Move::offset
MoveOffset(mv) == IF mv = "Left" THEN Vec2(-1, 0) ELSE Vec2(1, 0)

\* the `for coord in cells` loop of place_cursor from cell i on: every write
\* goes through IndexMut, whose assert aborts after the earlier writes
RECURSIVE PlaceLoop(_, _, _, _)
PlaceLoop(m, cells, i, c) ==
    IF i > CELL_COUNT
    THEN [matrix |-> m, cursor |-> None, panic |-> "none"]
    ELSE IF ~IndexOk(cells[i])
         THEN [matrix |-> m, cursor |-> None, panic |-> "index"]
         ELSE PlaceLoop([m EXCEPT ![index(cells[i])] = Some(c)], cells, i + 1, c)

\* Engine::place_cursor returning silently when there is no cursor
place_cursor_tolerant(m, cur, dbg) ==
    IF cur = None
    THEN [matrix |-> m, cursor |-> None, panic |-> "none"]
    ELSE IF dbg /\ is_placeable(m, Unwrap(cur))
         THEN [matrix |-> m, cursor |-> None, panic |-> "debug_assert"]
         ELSE IF Cells(Unwrap(cur)) = None
              THEN [matrix |-> m, cursor |-> None, panic |-> "unwrap"]
              ELSE PlaceLoop(m, Unwrap(Cells(Unwrap(cur))), 1, color(Unwrap(cur).kind))

\* Engine::place_cursor writing the cells of the piece on a blank matrix
place_cursor_on_blank(m, cur, dbg) ==
    IF cur = None
    THEN [matrix |-> m, cursor |-> None, panic |-> "expect"]
    ELSE IF dbg /\ is_placeable(m, Unwrap(cur))
         THEN [matrix |-> m, cursor |-> None, panic |-> "debug_assert"]
         ELSE IF Cells(Unwrap(cur)) = None
              THEN [matrix |-> m, cursor |-> None, panic |-> "unwrap"]
              ELSE PlaceLoop([i \in DOMAIN m |-> None],
                             Unwrap(Cells(Unwrap(cur))), 1, color(Unwrap(cur).kind))

\* Engine::place_cursor: the fields after the call, and the check that
\* aborted it.  cursor.take() leaves None before any check is evaluated;
\* debug_assert!(!is_placeable) is evaluated in debug builds only.
place_cursor(m, cur, dbg) ==
    IF cur = None
    THEN [matrix |-> m, cursor |-> None, panic |-> "expect"]
    ELSE IF dbg /\ is_placeable(m, Unwrap(cur))
         THEN [matrix |-> m, cursor |-> None, panic |-> "debug_assert"]
         ELSE IF Cells(Unwrap(cur)) = None
              THEN [matrix |-> m, cursor |-> None, panic |-> "unwrap"]
              ELSE PlaceLoop(m, Unwrap(Cells(Unwrap(cur))), 1, color(Unwrap(cur).kind))

\* Engine::ticked_down_cursor testing the cursor in place of the candidate
ticked_down_cursor_late(m, cur) ==
    IF cur = None
    THEN None
    ELSE LET new == moved_by(Unwrap(cur), Vec2(0, -1))
         IN  IF ~is_clipping(m, Unwrap(cur)) THEN Some(new) ELSE None

\* Engine::ticked_down_cursor
ticked_down_cursor(m, cur) ==
    IF cur = None
    THEN None
    ELSE LET new == moved_by(Unwrap(cur), Vec2(0, -1))
         IN  IF ~is_clipping(m, new) THEN Some(new) ELSE None

\* Engine::cursor_has_hit_bottom without the test that a cursor exists
cursor_has_hit_bottom_or_absent(m, cur) == ticked_down_cursor(m, cur) = None

\* Engine::cursor_has_hit_bottom
cursor_has_hit_bottom(m, cur) == cur # None /\ ticked_down_cursor(m, cur) = None

\* the loop of hard_drop as an `if let`: its body runs at most once
HardDropLoopOnce(m, cur) ==
    LET new == ticked_down_cursor(m, cur)
    IN  IF new # None THEN new ELSE cur

\* the `while let` loop of hard_drop: the cursor it ends with
RECURSIVE HardDropLoop(_, _)
HardDropLoop(m, cur) ==
    LET new == ticked_down_cursor(m, cur)
    IN  IF new # None THEN HardDropLoop(m, new) ELSE cur

\* the `while let` loop of hard_drop: the number of times its body runs
RECURSIVE HardDropSteps(_, _)
HardDropSteps(m, cur) ==
    LET new == ticked_down_cursor(m, cur)
    IN  IF new # None THEN 1 + HardDropSteps(m, new) ELSE 0

\* Engine::hard_drop
hard_drop(m, cur, dbg) == place_cursor(m, HardDropLoop(m, cur), dbg)

\* Engine::move_cursor assigning the candidate before testing it
move_cursor_unchecked(m, cur, mv) ==
    IF cur = None
    THEN [cursor |-> cur, ret |-> "Ok"]
    ELSE LET new == moved_by(Unwrap(cur), MoveOffset(mv))
         IN  IF is_clipping(m, new)
             THEN [cursor |-> Some(new), ret |-> "Err"]
             ELSE [cursor |-> Some(new), ret |-> "Ok"]

\* Engine::move_cursor returning Err(()) when there is no cursor
move_cursor_requires_cursor(m, cur, mv) ==
    IF cur = None
    THEN [cursor |-> cur, ret |-> "Err"]
    ELSE LET new == moved_by(Unwrap(cur), MoveOffset(mv))
         IN  IF is_clipping(m, new)
             THEN [cursor |-> cur, ret |-> "Err"]
             ELSE [cursor |-> Some(new), ret |-> "Ok"]

\* Engine::move_cursor: the cursor after the call and the Result returned
move_cursor(m, cur, mv) ==
    IF cur = None
    THEN [cursor |-> cur, ret |-> "Ok"]
    ELSE LET new == moved_by(Unwrap(cur), MoveOffset(mv))
         IN  IF is_clipping(m, new)
             THEN [cursor |-> cur, ret |-> "Err"]
             ELSE [cursor |-> Some(new), ret |-> "Ok"]

\* Engine::try_tick_down: unwrap() aborts before the assignment
try_tick_down(m, cur) ==
    LET new == ticked_down_cursor(m, cur)
    IN  IF new = None
        THEN [cursor |-> cur, panic |-> "unwrap"]
        ELSE [cursor |-> new, panic |-> "none"]


\* all orders of the elements at the positions S of a sequence
RECURSIVE Orders(_)
Orders(S) ==
    IF S = {}
    THEN {<<>>}
    ELSE UNION {{<<i>> \o rest : rest \in Orders(S \ {i})} : i \in S}

\* slice.shuffle(rng): the outcomes the random source can produce
Shuffles(v) == {[i \in 1..Len(v) |-> v[order[i]]] : order \in Orders(1..Len(v))}

\* the debug_assert! of refill_bag
RefillAssert(b) == b = <<>>

\* Engine::refill_bag extending the bag with all kinds but the last
refill_bag_short(b) == Shuffles(b \o SubSeq(Kind_ALL, 1, Len(Kind_ALL) - 1))

\* Engine::refill_bag: the bags it can leave
refill_bag(b) == Shuffles(b \o Kind_ALL)

----------------------------------------------------------------------------
(* The engine driven by its caller *)

Called(op, arg, ret) == [op |-> op, arg |-> arg, ret |-> ret]

NotCalled == [op |-> "", cells |-> None]
GeomIdle == piece = None /\ result = NotCalled
NoDraws == [kind \in Kinds |-> 0]
BagIdle == block = NoDraws /\ refills = 0 /\ probe = "O" /\ since = 0

\* Engine::new, in either build profile
Init ==
    /\ matrix = blank
    /\ bag = <<>>
    /\ cursor = None
    /\ debug_assertions \in BOOLEAN
    /\ panic = "none"
    /\ last = Called("new", "", "")
    /\ spawned = 0
    /\ GeomIdle
    /\ BagIdle

EngineIdle ==
    /\ matrix = blank
    /\ bag = <<>>
    /\ cursor = None
    /\ debug_assertions = FALSE
    /\ panic = "none"
    /\ last = Called("new", "", "")
    /\ spawned = 0

\* spawn_next of the driver: a piece of any kind becomes the cursor when
\* there is none and the piece is not clipping
Spawn(kind, rotation, x, y) ==
    LET p == [kind |-> kind, position |-> Vec2(x, y), rotation |-> rotation]
    IN  /\ panic = "none"
        /\ cursor = None
        /\ spawned < MaxPieces
        /\ ~is_clipping(matrix, p)
        /\ cursor' = Some(p)
        /\ spawned' = spawned + 1
        /\ last' = Called("spawn_next", "", "")
        /\ UNCHANGED <<matrix, bag, debug_assertions, panic>>
        /\ UNCHANGED <<geomVars, bagVars>>

MoveCursor(mv) ==
    /\ panic = "none"
    /\ LET r == move_cursor(matrix, cursor, mv)
       IN  /\ cursor' = r.cursor
           /\ last' = Called("move_cursor", mv, r.ret)
    /\ UNCHANGED <<matrix, bag, debug_assertions, panic, spawned>>
    /\ UNCHANGED <<geomVars, bagVars>>

TryTickDown ==
    /\ panic = "none"
    /\ LET r == try_tick_down(matrix, cursor)
       IN  /\ cursor' = r.cursor
           /\ panic' = r.panic
    /\ last' = Called("try_tick_down", "", "")
    /\ UNCHANGED <<matrix, bag, debug_assertions, spawned>>
    /\ UNCHANGED <<geomVars, bagVars>>

CursorHasHitBottom ==
    /\ panic = "none"
    /\ last' = Called("cursor_has_hit_bottom", "",
                      IF cursor_has_hit_bottom(matrix, cursor) THEN "true" ELSE "false")
    /\ UNCHANGED <<matrix, bag, cursor, debug_assertions, panic, spawned>>
    /\ UNCHANGED <<geomVars, bagVars>>

HardDrop ==
    /\ panic = "none"
    /\ LET r == hard_drop(matrix, cursor, debug_assertions)
       IN  /\ matrix' = r.matrix
           /\ cursor' = r.cursor
           /\ panic' = r.panic
    /\ last' = Called("hard_drop", "", "")
    /\ UNCHANGED <<bag, debug_assertions, spawned>>
    /\ UNCHANGED <<geomVars, bagVars>>

\* place_cursor called by the driver itself, which does so to lock a cursor
\* that has hit bottom (or, against the contract, without a cursor)
PlaceCursor ==
    /\ panic = "none"
    /\ cursor = None \/ cursor_has_hit_bottom(matrix, cursor)
    /\ LET r == place_cursor(matrix, cursor, debug_assertions)
       IN  /\ matrix' = r.matrix
           /\ cursor' = r.cursor
           /\ panic' = r.panic
    /\ last' = Called("place_cursor", "", "")
    /\ UNCHANGED <<bag, debug_assertions, spawned>>
    /\ UNCHANGED <<geomVars, bagVars>>

\* the driver installs a piece at any column, at a row up to MaxSpawnY
SpawnNext ==
    /\ cursor = None
    /\ spawned < MaxPieces
    /\ \E kind \in Kinds, rotation \in Rotations,
          x \in (0 - CELL_COUNT)..WIDTH, y \in 0..MaxSpawnY :
              Spawn(kind, rotation, x, y)

Next ==
    \/ SpawnNext
    \/ \E mv \in Moves : MoveCursor(mv)
    \/ TryTickDown
    \/ CursorHasHitBottom
    \/ HardDrop
    \/ PlaceCursor

Spec == Init /\ [][Next]_vars

----------------------------------------------------------------------------
(* Piece::cells as a function of the piece: every kind and rotation, at the *)
(* positions within GeomMargin of the matrix                                *)

GeomXs == (0 - GeomMargin)..(WIDTH + GeomMargin)
GeomYs == (0 - GeomMargin)..(HEIGHT + GeomMargin)

InitGeom ==
    /\ EngineIdle
    /\ BagIdle
    /\ \E kind \in Kinds, rotation \in Rotations, x \in GeomXs, y \in GeomYs :
           piece = Some([kind |-> kind, position |-> Vec2(x, y), rotation |-> rotation])
    /\ result = NotCalled

CallCells ==
    /\ result = NotCalled
    /\ result' = [op |-> "cells", cells |-> Cells(Unwrap(piece))]
    /\ UNCHANGED piece
    /\ UNCHANGED <<engineVars, bagVars>>

NextGeom == CallCells

SpecGeom == InitGeom /\ [][NextGeom]_vars

----------------------------------------------------------------------------
(* The bag drawn from by its caller *)

BlockLen == block["O"] + block["I"] + block["T"] + block["L"]
            + block["J"] + block["S"] + block["Z"]

\* number of draws so far
Draws == IF refills = 0 THEN 0 ELSE (refills - 1) * Len(Kind_ALL) + BlockLen

\* Engine::new; the build with debug_assert! compiled in, the profile in
\* which refill_bag can abort
InitBag ==
    /\ matrix = blank
    /\ bag = <<>>
    /\ cursor = None
    /\ debug_assertions = TRUE
    /\ panic = "none"
    /\ last = Called("new", "", "")
    /\ spawned = 0
    /\ GeomIdle
    /\ block = NoDraws
    /\ refills = 0
    /\ probe \in Kinds
    /\ since = 0

\* what a draw records: the Kind returned, counted in its block
Drawn(kind, refilled) ==
    /\ last' = Called("draw", "", "")
    /\ block' = IF refilled
                THEN [NoDraws EXCEPT ![kind] = 1]
                ELSE [block EXCEPT ![kind] = @ + 1]
    /\ since' = IF kind = probe THEN 0 ELSE since + 1

\* draw on an empty bag: refill_bag, then the front element is removed
DrawRefill ==
    /\ panic = "none"
    /\ bag = <<>>
    /\ refills < MaxRefills
    /\ IF debug_assertions /\ ~RefillAssert(bag)
       THEN /\ panic' = "debug_assert"
            /\ UNCHANGED <<bag, last, block, refills, since>>
       ELSE /\ \E b \in refill_bag(bag) :
                   /\ bag' = Tail(b)
                   /\ Drawn(Head(b), TRUE)
            /\ refills' = refills + 1
            /\ UNCHANGED panic
    /\ UNCHANGED <<matrix, cursor, debug_assertions, spawned, probe>>
    /\ UNCHANGED geomVars

\* draw on a bag that holds a Kind: the front element is removed
DrawFront ==
    /\ panic = "none"
    /\ bag # <<>>
    /\ bag' = Tail(bag)
    /\ Drawn(Head(bag), FALSE)
    /\ UNCHANGED <<matrix, cursor, debug_assertions, panic, spawned, refills, probe>>
    /\ UNCHANGED geomVars

NextBag == DrawRefill \/ DrawFront

SpecBag == InitBag /\ [][NextBag]_vars

----------------------------------------------------------------------------
(* The matrix predicates and the descent of hard_drop as functions of the   *)
(* board and the piece: every kind and rotation, at the positions around    *)
(* the matrix, on the blank board and on the boards with one filled cell    *)
(* in the way of the piece                                                  *)

BoardXs == (0 - CELL_COUNT)..WIDTH
BoardYs == (0 - CELL_COUNT)..HEIGHT

\* the blank board with one cell filled
OneFilled(coord) == [blank EXCEPT ![index(coord)] = Some(Colors[1])]

\* the cells of the matrix that a piece covers at its position or up to
\* MaxGap rows below it
Around(p) ==
    UNION {LET cells == Cells([kind |-> p.kind,
                               position |-> Vec2(p.position.x, p.position.y - gap),
                               rotation |-> p.rotation])
           IN  IF cells = None
               THEN {}
               ELSE {Unwrap(cells)[i] : i \in {j \in 1..CELL_COUNT : in_matrix(Unwrap(cells)[j])}}
           : gap \in 0..MaxGap}

\* an engine whose board is blank or has one filled cell, with a piece that
\* is its cursor unless it is clipping
InitBoard ==
    /\ \E kind \in Kinds, rotation \in Rotations, x \in BoardXs, y \in BoardYs :
           LET p == [kind |-> kind, position |-> Vec2(x, y), rotation |-> rotation]
           IN  /\ piece = Some(p)
               /\ matrix \in {blank} \cup {OneFilled(coord) : coord \in Around(p)}
               /\ cursor = IF is_clipping(matrix, p) THEN None ELSE Some(p)
    /\ bag = <<>>
    /\ debug_assertions \in BOOLEAN
    /\ panic = "none"
    /\ last = Called("new", "", "")
    /\ spawned = 0
    /\ result = NotCalled
    /\ BagIdle

\* both predicates applied to the board and the piece
CallPredicates ==
    /\ result = NotCalled
    /\ last.op = "new"
    /\ result' = [op |-> "predicates",
                  placeable |-> is_placeable(matrix, Unwrap(piece)),
                  clipping |-> is_clipping(matrix, Unwrap(piece)),
                  panic |-> IF is_placeable_panic(matrix, Unwrap(piece)) # "none"
                            THEN is_placeable_panic(matrix, Unwrap(piece))
                            ELSE is_clipping_panic(matrix, Unwrap(piece))]
    /\ UNCHANGED piece
    /\ UNCHANGED <<engineVars, bagVars>>

\* hard_drop on the cursor, the iterations of its loop counted
HardDropCounted ==
    /\ panic = "none"
    /\ cursor # None
    /\ result = NotCalled
    /\ LET r == hard_drop(matrix, cursor, debug_assertions)
       IN  /\ matrix' = r.matrix
           /\ cursor' = r.cursor
           /\ panic' = r.panic
    /\ last' = Called("hard_drop", "", "")
    /\ result' = [op |-> "hard_drop", steps |-> HardDropSteps(matrix, cursor)]
    /\ UNCHANGED <<bag, debug_assertions, spawned, piece>>
    /\ UNCHANGED bagVars

NextBoard == CallPredicates \/ HardDropCounted

SpecBoard == InitBoard /\ [][NextBoard]_vars

----------------------------------------------------------------------------
(* Geometry properties, under SpecGeom *)

CellsCalled == result.op = "cells"
ThePiece == Unwrap(piece)

\* the rotation map and corrective offset of a template cell, written out
\* per rotation: g is the grid size of the kind
ReferenceLocal(kind, rotation, c) ==
    LET g == IF kind = "I" THEN 4 ELSE 3
    IN  IF kind = "O" \/ rotation = "N"
        THEN Vec2(c.x, c.y)
        ELSE IF rotation = "E"
             THEN Vec2(c.y, g - c.x)
             ELSE IF rotation = "S"
                  THEN Vec2(g - c.x, g - c.y)
                  ELSE Vec2(g - c.y, c.x)

SPieceExample == [kind |-> "S", position |-> Vec2(5, 6), rotation |-> "W"]
SPieceCells == <<Vec2(7, 6), Vec2(7, 7), Vec2(6, 7), Vec2(6, 8)>>

\* C5: when Piece::cells succeeds it returns, in template order, the 4
\* template cells mapped by the rotation (identity for N and for kind O,
\* (x,y)->(y,-x) for E, (-x,-y) for S, (-y,x) for W), plus the corrective
\* offset scaled by the grid size (none for O), plus the position; kind S at
\* (5,6) with rotation W yields (7,6),(7,7),(6,7),(6,8).
C5_CellsFollowReference ==
    CellsCalled =>
        /\ result.cells # None =>
               \A i \in 1..CELL_COUNT :
                   Unwrap(result.cells)[i] =
                       VecAdd(ReferenceLocal(ThePiece.kind, ThePiece.rotation,
                                             KindCells(ThePiece.kind)[i]),
                              ThePiece.position)
        /\ ThePiece = SPieceExample => result.cells = Some(SPieceCells)

\* C5 witness: cells() was applied to the S piece of the test and succeeded
C5_Witness ==
    /\ CellsCalled
    /\ ThePiece = SPieceExample
    /\ result.cells = Some(SPieceCells)

\* C9: Piece::cells returns None exactly when one of the 4 signed offsets has
\* a negative x, a negative y or an x >= WIDTH; a y >= HEIGHT does not make
\* it fail.
C9_CellsNoneIff ==
    CellsCalled =>
        (result.cells = None <=>
            \E i \in 1..CELL_COUNT :
                \/ PieceOffsets(ThePiece)[i].x < 0
                \/ PieceOffsets(ThePiece)[i].y < 0
                \/ PieceOffsets(ThePiece)[i].x >= WIDTH)

\* C9 witness: cells() succeeded on a piece with a cell at y >= HEIGHT
C9_Witness ==
    /\ CellsCalled
    /\ result.cells # None
    /\ \E i \in 1..CELL_COUNT : Unwrap(result.cells)[i].y >= HEIGHT

\* C10: for every kind and rotation, each of the 4 local offsets computed
\* before translation has both components in [0, size), size being 4 for I
\* and 3 for the other kinds.
C10_LocalOffsetsInGrid ==
    CellsCalled =>
        \A i \in 1..CELL_COUNT :
            LET local == rotator(ThePiece, KindCells(ThePiece.kind)[i])
                size == IF ThePiece.kind = "I" THEN 4 ELSE 3
            IN  /\ local.x \in 0..(size - 1)
                /\ local.y \in 0..(size - 1)

----------------------------------------------------------------------------
(* Board properties, under SpecBoard *)

PredicatesCalled == result.op = "predicates"

\* the 4 cells of the piece, as signed offsets, all lie within the grid
InGrid(p) ==
    \A i \in 1..CELL_COUNT :
        /\ PieceOffsets(p)[i].x \in 0..(WIDTH - 1)
        /\ PieceOffsets(p)[i].y \in 0..(HEIGHT - 1)

\* the indexes of the filled cells of a board
FilledCells(m) == {idx \in 0..(SIZE - 1) : m[idx] # None}

\* the board has exactly one filled cell, and it is a cell of the piece
OneCellOfPieceFilled(m, p) ==
    LET filled == FilledCells(m)
    IN  /\ Cardinality(filled) = 1
        /\ \E i \in 1..CELL_COUNT : filled = {index(PieceOffsets(p)[i])}

\* C11: on a blank board every piece whose 4 cells all lie within the
\* 10x20 grid is placeable and not clipping; on a board that differs from
\* blank by one filled cell that is one of the 4 cells of the piece, the
\* piece is not placeable and is clipping.
C11_BlankPlaceableFilledClipping ==
    (PredicatesCalled /\ InGrid(ThePiece)) =>
        /\ matrix = blank => (result.placeable /\ ~result.clipping)
        /\ OneCellOfPieceFilled(matrix, ThePiece) =>
               (~result.placeable /\ result.clipping)

\* C11 witness: the predicates were applied to a piece within the grid on a
\* board whose one filled cell is a cell of the piece: not placeable, clipping
C11_Witness ==
    /\ PredicatesCalled
    /\ InGrid(ThePiece)
    /\ OneCellOfPieceFilled(matrix, ThePiece)
    /\ ~result.placeable
    /\ result.clipping

\* C18: for every board and every piece, also a piece without cells or with
\* cells at y >= HEIGHT, is_clipping is the negation of is_placeable, and
\* neither call fails the assert of Index.
C18_ClippingIsNotPlaceable ==
    PredicatesCalled =>
        /\ result.clipping = ~result.placeable
        /\ result.panic = "none"

\* C18 witness: the predicates were applied, on a board with a filled cell,
\* to a piece that has cells and one of them at y >= HEIGHT
C18_Witness ==
    /\ PredicatesCalled
    /\ matrix # blank
    /\ Cells(ThePiece) # None
    /\ \E i \in 1..CELL_COUNT : Unwrap(Cells(ThePiece))[i].y >= HEIGHT
    /\ result.clipping
    /\ ~result.placeable

----------------------------------------------------------------------------
(* Bag properties, under SpecBag *)

\* C6: every block of 7 consecutive draws that starts at a refill boundary
\* returns each of the 7 Kinds exactly once: no Kind is drawn twice within a
\* block, a block ends (the bag is empty again) only when all 7 Kinds were
\* drawn, and so 14 draws from a fresh bag are two permutations of the Kinds.
C6_BlockIsPermutation ==
    /\ \A kind \in Kinds : block[kind] <= 1
    /\ (refills > 0 /\ bag = <<>>) => \A kind \in Kinds : block[kind] = 1
    /\ Draws = refills * Len(Kind_ALL) - Len(bag)

\* C6 witness: 14 draws were made and the second block is complete
C6_Witness ==
    /\ refills = 2
    /\ bag = <<>>
    /\ Draws = 14
    /\ \A kind \in Kinds : block[kind] = 1

\* this step is a draw that returns the probe
ProbeDrawn == Draws' = Draws + 1 /\ since' = 0

\* the probe was drawn before
ProbeSeen == since < Draws

\* C7 as stated: in any window of up to 13 consecutive draws each Kind
\* appears at most once, i.e. two draws of the same Kind are at least 13
\* draws apart.
C7_AtMostOnceIn13 == [][(ProbeSeen /\ ProbeDrawn) => since + 1 >= 13]_vars

\* C7 amended: every window of 13 consecutive draws holds each Kind at least
\* once, i.e. no Kind is missing from 13 draws in a row.
C7_AtLeastOnceIn13 == since < 13

\* C7 witness: the probe has been missing for 12 draws in a row, having been
\* drawn before
C7_Witness == ProbeSeen /\ since = 12

\* how often a Kind occurs in a bag
Occurrences(b, kind) == Cardinality({i \in 1..Len(b) : b[i] = kind})

\* C19: the bag always holds at most 7 Kinds, none of them twice; once
\* refilled it is what is left of a permutation of the 7 Kinds, each Kind
\* being either still in the bag or drawn since the refill; and the bag is
\* refilled only when empty: the emptiness assertion of refill_bag never
\* fails.
C19_BagIsRestOfPermutation ==
    /\ Len(bag) <= 7
    /\ \A kind \in Kinds : Occurrences(bag, kind) <= 1
    /\ refills > 0 => \A kind \in Kinds : Occurrences(bag, kind) + block[kind] = 1
    /\ panic = "none"

\* C19 witness: the bag was refilled a second time and holds the last 3
\* Kinds of its permutation
C19_Witness ==
    /\ refills = 2
    /\ Len(bag) = 3
    /\ Cardinality({bag[i] : i \in 1..Len(bag)}) = 3

----------------------------------------------------------------------------
(* Engine properties, under Spec *)

TheCursor == Unwrap(cursor)

\* this step is a call of the named operation
Calls(op) == last'.op = op

\* the piece translated by (dx, dy)
Shifted(p, dx, dy) ==
    [kind |-> p.kind,
     position |-> Vec2(p.position.x + dx, p.position.y + dy),
     rotation |-> p.rotation]

\* the indexes of the 4 cells of a piece whose cells lie in the matrix
CellIndexes(p) == {index(Unwrap(Cells(p))[i]) : i \in 1..CELL_COUNT}

\* board m2 is board m with piece p locked: exactly the 4 cells of p
\* changed, all empty before and of the colour of the kind of p after
Locked(m, m2, p) ==
    /\ Cells(p) # None
    /\ \A i \in 1..CELL_COUNT : in_matrix(Unwrap(Cells(p))[i])
    /\ LET changed == CellIndexes(p)
       IN  /\ Cardinality(changed) = 4
           /\ \A idx \in changed : m[idx] = None /\ m2[idx] = Some(color(p.kind))
           /\ \A idx \in (0..(SIZE - 1)) \ changed : m2[idx] = m[idx]

\* the first position of the straight descent of p from which the downward
\* candidate is clipping
Resting(m, p) ==
    LET blocked(d) == is_clipping(m, Shifted(p, 0, 0 - (d + 1)))
        depth == CHOOSE d \in 0..(HEIGHT + CELL_COUNT) :
                     blocked(d) /\ \A e \in 0..(d - 1) : ~blocked(e)
    IN  Shifted(p, 0, 0 - depth)

PresentNotClipping == cursor # None /\ ~is_clipping(matrix, TheCursor)

\* C1: whenever the driver commits a cursor that is present and not clipping
\* (hard_drop, or place_cursor on a cursor that has hit bottom), no contract
\* check of place_cursor fails: the call does not abort.
C1_NoContractCheckFails ==
    [][((Calls("hard_drop") \/ Calls("place_cursor")) /\ PresentNotClipping)
           => panic' = "none"]_vars

\* C2: a tick down on a cursor whose downward candidate is clipping locks the
\* piece: it does not abort, the cursor becomes None and the board gains
\* exactly the 4 cells of the cursor in the colour of its kind.
C2_TickDownLocks ==
    [][(Calls("try_tick_down") /\ PresentNotClipping
           /\ is_clipping(matrix, Shifted(TheCursor, 0, -1)))
           => /\ panic' = "none"
              /\ cursor' = None
              /\ Locked(matrix, matrix', TheCursor)]_vars

\* C3: hard_drop on a cursor that is not clipping ends with the cursor None
\* and the board changed in exactly 4 cells, empty before and of the colour
\* of the kind after: the cells of the piece, kind, x and rotation unchanged,
\* at the first position of its descent whose downward candidate is
\* clipping; on a blank board its lowest cell is on row 0.
C3_HardDropLocks ==
    [][(Calls("hard_drop") /\ PresentNotClipping)
           => LET rest == Resting(matrix, TheCursor)
              IN  /\ cursor' = None
                  /\ Locked(matrix, matrix', rest)
                  /\ matrix = blank =>
                         \E i \in 1..CELL_COUNT : Unwrap(Cells(rest))[i].y = 0]_vars

\* C3 in release builds, where the assertion of place_cursor is compiled out
C3_HardDropLocksInRelease ==
    [][(Calls("hard_drop") /\ PresentNotClipping /\ ~debug_assertions)
           => LET rest == Resting(matrix, TheCursor)
              IN  /\ cursor' = None
                  /\ panic' = "none"
                  /\ Locked(matrix, matrix', rest)
                  /\ matrix = blank =>
                         \E i \in 1..CELL_COUNT : Unwrap(Cells(rest))[i].y = 0]_vars

\* the candidate of a move: x - 1 for Left, x + 1 for Right
Candidate(p, mv) == Shifted(p, IF mv = "Left" THEN -1 ELSE 1, 0)

\* C4: move_cursor with a cursor whose candidate is clipping returns Err and
\* leaves the cursor, the board and the bag unchanged.
C4_ClippingMoveRejected ==
    [][\A mv \in Moves :
           (Calls("move_cursor") /\ last'.arg = mv /\ cursor # None
               /\ is_clipping(matrix, Candidate(TheCursor, mv)))
           => /\ last'.ret = "Err"
              /\ cursor' = cursor
              /\ matrix' = matrix
              /\ bag' = bag]_vars

\* C4 witness: a move was rejected whose candidate lies in the matrix and
\* overlaps a filled cell
C4_Witness ==
    /\ last.op = "move_cursor"
    /\ last.ret = "Err"
    /\ cursor # None
    /\ Cells(Candidate(TheCursor, last.arg)) # None
    /\ \E idx \in CellIndexes(Candidate(TheCursor, last.arg)) : matrix[idx] # None

\* C8: hard_drop or place_cursor called while the cursor is None aborts on
\* the expect() of place_cursor, and no board cell is written.
C8_CommitWithoutCursorAborts ==
    [][((Calls("hard_drop") \/ Calls("place_cursor")) /\ cursor = None)
           => /\ panic' = "expect"
              /\ cursor' = None
              /\ matrix' = matrix]_vars

\* C8 witness: hard_drop was called without a cursor on a board that holds a
\* locked piece, and aborted
C8_Witness ==
    /\ last.op = "hard_drop"
    /\ panic = "expect"
    /\ cursor = None
    /\ matrix # blank

\* C12: the board never clears or shifts: in every step a filled cell keeps
\* its colour, and the board changes only in a step that locks the cursor
\* (hard_drop or place_cursor, the cursor present before and None after);
\* move_cursor, the tick down and cursor_has_hit_bottom leave every cell
\* unchanged.
C12_BoardChangesOnlyByLock ==
    [][/\ matrix' # matrix =>
              /\ Calls("hard_drop") \/ Calls("place_cursor")
              /\ cursor # None
              /\ cursor' = None
              /\ \A idx \in 0..(SIZE - 1) :
                     matrix[idx] # None => matrix'[idx] = matrix[idx]
       /\ (Calls("move_cursor") \/ Calls("try_tick_down")
              \/ Calls("cursor_has_hit_bottom")) => matrix' = matrix]_vars

\* C12 witness: a second piece was locked and the cells of the first are
\* still filled: the board holds the cells of two pieces
C12_Witness ==
    /\ last.op = "hard_drop"
    /\ panic = "none"
    /\ spawned = 2
    /\ Cardinality(FilledCells(matrix)) = 2 * CELL_COUNT

\* C14: cursor_has_hit_bottom is a pure query: it returns true exactly when
\* a cursor exists and the cursor translated by (0,-1) is clipping, so false
\* when the cursor is None, and it leaves cursor, board and bag unchanged.
C14_HitBottomIsPureQuery ==
    [][Calls("cursor_has_hit_bottom")
           => /\ last'.ret = "true" <=>
                     (cursor # None /\ is_clipping(matrix, Shifted(TheCursor, 0, -1)))
              /\ last'.ret \in {"true", "false"}
              /\ cursor' = cursor
              /\ matrix' = matrix
              /\ bag' = bag]_vars

\* C14 witness: the query answered true for a cursor that rests on a filled
\* cell: the cells of its downward candidate lie in the matrix
C14_Witness ==
    /\ last.op = "cursor_has_hit_bottom"
    /\ last.ret = "true"
    /\ cursor # None
    /\ matrix # blank
    /\ Cells(Shifted(TheCursor, 0, -1)) # None

\* C16: move_cursor with a cursor whose candidate is not clipping returns
\* Ok and the new cursor has the same kind, rotation and y, and x decreased
\* by 1 for Left, increased by 1 for Right; the board and the bag are
\* unchanged.
C16_LegalMoveShiftsCursor ==
    [][\A mv \in Moves :
           (Calls("move_cursor") /\ last'.arg = mv /\ cursor # None
               /\ ~is_clipping(matrix, Candidate(TheCursor, mv)))
           => /\ last'.ret = "Ok"
              /\ cursor' # None
              /\ Unwrap(cursor').kind = TheCursor.kind
              /\ Unwrap(cursor').rotation = TheCursor.rotation
              /\ Unwrap(cursor').position.y = TheCursor.position.y
              /\ Unwrap(cursor').position.x =
                     IF mv = "Left" THEN TheCursor.position.x - 1
                                    ELSE TheCursor.position.x + 1
              /\ matrix' = matrix
              /\ bag' = bag]_vars

\* C16 witness: a move to the left was accepted on a board that holds a
\* locked piece
C16_Witness ==
    /\ last.op = "move_cursor"
    /\ last.arg = "Left"
    /\ last.ret = "Ok"
    /\ cursor # None
    /\ matrix # blank

\* C17: move_cursor called while the cursor is None returns Ok, not Err, and
\* leaves the cursor None and the board and the bag unchanged.
C17_MoveWithoutCursorIsNoOp ==
    [][(Calls("move_cursor") /\ cursor = None)
           => /\ last'.ret = "Ok"
              /\ cursor' = None
              /\ matrix' = matrix
              /\ bag' = bag]_vars

\* C17 witness: move_cursor was called without a cursor, after a piece was
\* locked, and returned Ok
C17_Witness ==
    /\ last.op = "move_cursor"
    /\ last.ret = "Ok"
    /\ cursor = None
    /\ panic = "none"
    /\ matrix # blank

\* C20: the cursor is always None or not clipping: no move_cursor, tick down
\* or hard_drop leaves a cursor with a cell outside the matrix or on a filled
\* cell of the board.
C20_CursorNeverClipping ==
    cursor # None =>
        /\ ~is_clipping(matrix, TheCursor)
        /\ InGrid(TheCursor)
        /\ \A i \in 1..CELL_COUNT : matrix[index(PieceOffsets(TheCursor)[i])] = None

\* C20 witness: a cursor that was ticked down, without abort, on a board
\* that holds a locked piece
C20_Witness ==
    /\ last.op = "try_tick_down"
    /\ panic = "none"
    /\ cursor # None
    /\ matrix # blank
    /\ ~is_clipping(matrix, TheCursor)

----------------------------------------------------------------------------
(* Descent properties, under SpecBoard *)

\* the caller's own descent: try_tick_down while cursor_has_hit_bottom is
\* false, then place_cursor; the fields it ends with and the check that
\* aborted it
RECURSIVE TickUntilLocked(_, _, _)
TickUntilLocked(m, cur, dbg) ==
    IF cursor_has_hit_bottom(m, cur)
    THEN place_cursor(m, cur, dbg)
    ELSE LET r == try_tick_down(m, cur)
         IN  IF r.panic # "none"
             THEN [matrix |-> m, cursor |-> r.cursor, panic |-> r.panic]
             ELSE TickUntilLocked(m, r.cursor, dbg)

\* C13: hard_drop on a cursor that is not clipping ends with the board, the
\* cursor (None) and the outcome of ticking down while cursor_has_hit_bottom
\* is false and then committing; the board is not written at an
\* intermediate position of the descent: a cell that differs afterwards is
\* a cell of the piece at the position it rests at.
C13_HardDropIsTickUntilLocked ==
    [][(Calls("hard_drop") /\ PresentNotClipping)
           => LET ticked == TickUntilLocked(matrix, cursor, debug_assertions)
                  rest == Resting(matrix, TheCursor)
                  written == {idx \in 0..(SIZE - 1) : matrix'[idx] # matrix[idx]}
              IN  /\ matrix' = ticked.matrix
                  /\ cursor' = ticked.cursor
                  /\ panic' = ticked.panic
                  /\ cursor' = None
                  /\ written \subseteq CellIndexes(rest)]_vars

\* C13 witness: hard_drop locked a piece that descended and came to rest on
\* a filled cell, above row 0
C13_Witness ==
    /\ last.op = "hard_drop"
    /\ result.op = "hard_drop"
    /\ result.steps >= 1
    /\ panic = "none"
    /\ cursor = None
    /\ Cardinality(FilledCells(matrix)) = CELL_COUNT + 1
    /\ \A x \in 0..(WIDTH - 1) : matrix[index(Vec2(x, 0))] = None

\* C15: hard_drop terminates and its descent is bounded by the height of the
\* board: started with a cursor that is not clipping, its loop moves the
\* cursor down at most 20 times, fewer than HEIGHT times, before it commits.
C15_DescentBoundedByHeight ==
    result.op = "hard_drop" =>
        /\ result.steps <= 20
        /\ result.steps < HEIGHT
        /\ cursor = None

\* C15 witness: a hard_drop whose loop moved the cursor down HEIGHT - 1 times
C15_Witness ==
    /\ result.op = "hard_drop"
    /\ result.steps = HEIGHT - 1
    /\ panic = "none"
    /\ cursor = None

====
